---------------------------- MODULE Spec2Model ----------------------------
(***************************************************************************)
(* A model of plotGantt.py: the command line check (readArgs), the parser  *)
(* of the .gantt task list (parseTasks), the consolidation of sibling      *)
(* tasks (consolidateSiblingTasks), the removal of duplicate tasks         *)
(* (removeDuplicateTasks), the overlap check (checkForOverlappingTasks)    *)
(* and the dispatch on the mode inside the rendering loop of               *)
(* makeGanttChart.                                                         *)
(*                                                                         *)
(* Text is modelled as a sequence of one-character strings, so that        *)
(* str.split, float() and sorted() are computed character by character.    *)
(* Numbers are non-negative integers written with decimal digits.          *)
(***************************************************************************)
EXTENDS Integers, Sequences, FiniteSets, TLC

VARIABLES
    argv,       \* sys.argv: the program name followed by the arguments
    file,       \* the lines of the .gantt file, each one a sequence of characters
    pc,         \* the statement of __main__ / makeGanttChart that runs next
    tasks,      \* the variable tasks of makeGanttChart
    machines,   \* sorted(getMachines(tasks)) (line 349)
    rawTasks,   \* history: tasks as returned by parseTasks (line 348)
    consTasks,  \* history: tasks as handed to removeDuplicateTasks (line 356)
    overlap,    \* what checkForOverlappingTasks returned (line 357)
    bars,       \* the bars drawn by the rendering loop (lines 389-459)
    stdout,     \* what has been printed to standard output
    raised,     \* the exception that ended the process, "" when there is none
    status      \* the exit status of the process once pc = "exit"

vars == <<argv, file, pc, rawTasks, machines, consTasks, tasks, overlap, bars, stdout, raised, status>>

(***************************************************************************)
(* Bounds of the model.                                                    *)
(***************************************************************************)
MaxLines == 3        \* lines of a .gantt file in the pipeline
MaxParseLines == 2   \* lines of a .gantt file in the parser's own check
MaxGap == 2          \* space characters between two adjacent fields
MaxTasks == 3        \* tasks handed to removeDuplicateTasks / checkForOverlappingTasks
MaxBegin == 1        \* largest tBegin handed to checkForOverlappingTasks
MaxEnd == 2          \* largest tEnd handed to checkForOverlappingTasks

(***************************************************************************)
(* Characters and strings.                                                 *)
(***************************************************************************)
Digits == <<"0", "1", "2", "3", "4", "5", "6", "7", "8", "9">>

IsDigit(c) == \E i \in 1..Len(Digits) : Digits[i] = c

DigitValue(c) == (CHOOSE i \in 1..Len(Digits) : Digits[i] = c) - 1

\* The code point of a character, which orders Python's strings.
Ord(c) ==
    CASE c = "\n" -> 10
      [] c = " " -> 32
      [] IsDigit(c) -> 48 + DigitValue(c)
      [] c = "A" -> 65
      [] c = "B" -> 66
      [] c = "I" -> 73
      [] c = "M" -> 77
      [] c = "N" -> 78
      [] c = "P" -> 80
      [] c = "Q" -> 81
      [] c = "X" -> 88
      [] c = "Y" -> 89
      [] c = "_" -> 95
      [] OTHER -> 127

\* s < t for two Python strings.
RECURSIVE StrLess(_, _)
StrLess(s, t) ==
    IF t = <<>> THEN FALSE
    ELSE IF s = <<>> THEN TRUE
    ELSE IF Head(s) = Head(t) THEN StrLess(Tail(s), Tail(t))
    ELSE Ord(Head(s)) < Ord(Head(t))

\* str.split(sep) with a one-character separator: every occurrence of sep
\* ends a field, so two adjacent separators enclose an empty field.
RECURSIVE Split(_, _)
Split(s, sep) ==
    IF s = <<>> THEN << <<>> >>
    ELSE LET rest == Split(Tail(s), sep)
         IN  IF Head(s) = sep
             THEN << <<>> >> \o rest
             ELSE << <<Head(s)>> \o Head(rest) >> \o Tail(rest)

IsSpace(c) == c = " " \/ c = "\n"

RECURSIVE LStrip(_)
LStrip(s) == IF s # <<>> /\ IsSpace(Head(s)) THEN LStrip(Tail(s)) ELSE s

RECURSIVE RStrip(_)
RStrip(s) ==
    IF s # <<>> /\ IsSpace(s[Len(s)]) THEN RStrip(SubSeq(s, 1, Len(s) - 1)) ELSE s

RECURSIVE Decimal(_)
Decimal(s) == IF s = <<>> THEN 0 ELSE 10 * Decimal(SubSeq(s, 1, Len(s) - 1)) + DigitValue(s[Len(s)])

\* float(s): surrounding white space is dropped; what is left must be a
\* number, here a non-empty run of digits.  ValueError otherwise.
CanFloat(s) ==
    LET t == RStrip(LStrip(s))
    IN  t # <<>> /\ \A i \in 1..Len(t) : IsDigit(t[i])

Float(s) == Decimal(RStrip(LStrip(s)))

(***************************************************************************)
(* Tasks.                                                                  *)
(***************************************************************************)
\* task(): the class attributes are what an instance reads until assigned.
NewTask ==
    [tBegin |-> 0, tEnd |-> 0, batchSize |-> 0, order |-> <<>>, machine |-> <<>>,
     processingUnit |-> <<>>, operation |-> <<>>, subtasks |-> <<>>]

\* One line of standard output: the text printed and the value printed with it.
Msg(text, arg) == [text |-> text, arg |-> arg]

Printed(text) == \E i \in 1..Len(stdout) : stdout[i].text = text

\* How a call ends: it returns value, or the process ends (exit(code), or
\* an exception nobody catches, which ends the process with status 1).
Return(value) == [returns |-> TRUE, value |-> value, out |-> <<>>, raised |-> "", status |-> 0]

Exit(out, code) == [returns |-> FALSE, value |-> <<>>, out |-> out, raised |-> "", status |-> code]

Raise(exception) == [returns |-> FALSE, value |-> <<>>, out |-> <<>>, raised |-> exception, status |-> 1]

\* The distinct values of a sequence, in the order of their first occurrence.
RECURSIVE Unique(_)
Unique(s) ==
    IF s = <<>> THEN <<>>
    ELSE LET init == Unique(SubSeq(s, 1, Len(s) - 1))
             x == s[Len(s)]
         IN  IF \E i \in 1..Len(init) : init[i] = x THEN init ELSE Append(init, x)

getMachines(ts) == Unique([i \in 1..Len(ts) |-> ts[i].machine])

\* sorted(list of str)
RECURSIVE InsertStr(_, _)
InsertStr(x, s) ==
    IF s = <<>> THEN <<x>>
    ELSE IF StrLess(x, Head(s)) THEN <<x>> \o s
    ELSE <<Head(s)>> \o InsertStr(x, Tail(s))

RECURSIVE SortedStrs(_)
SortedStrs(s) == IF s = <<>> THEN <<>> ELSE InsertStr(s[Len(s)], SortedStrs(SubSeq(s, 1, Len(s) - 1)))

(***************************************************************************)
(* parseTasks.                                                             *)
(***************************************************************************)
\* The + of line 144 is applied to a list and a str: Python raises TypeError
\* before anything is printed and before exit(5) is reached.
checkLineStandardCompliance(line) ==
    IF Len(line) # 5 THEN Raise("TypeError") ELSE Return(<<>>)

checkMTSinfoCompliance(info) ==
    IF Len(info) # 3
    THEN Exit(<<Msg("MTS INFO DOES NOT ADHERE TO MY STANDARD: processingUnit_machine_order", <<>>)>>, 5)
    ELSE Return(<<>>)

\* The body of the loop of parseTasks, lines 169-183.
ParseLine(mode, line) ==
    LET words == Split(line, " ")
        compliance == checkLineStandardCompliance(words)
    IN  IF ~compliance.returns THEN compliance
        ELSE IF ~CanFloat(words[2]) \/ ~CanFloat(words[3]) \/ ~CanFloat(words[5])
        THEN Raise("ValueError")
        ELSE LET thisTask == [NewTask EXCEPT !.tBegin = Float(words[2]),
                                             !.tEnd = Float(words[3]),
                                             !.operation = words[4],
                                             !.batchSize = Float(words[5]),
                                             !.machine = words[1]]
             IN  IF mode = "MTS"
                 THEN LET mtsInfo == Split(words[1], "_")
                          info == checkMTSinfoCompliance(mtsInfo)
                      IN  IF ~info.returns THEN info
                          ELSE Return([thisTask EXCEPT !.processingUnit = mtsInfo[1],
                                                       !.machine = mtsInfo[2],
                                                       !.order = mtsInfo[3]])
                 ELSE Return(thisTask)

RECURSIVE ParseLines(_, _, _)
ParseLines(mode, lines, allTasks) ==
    IF lines = <<>> THEN Return(allTasks)
    ELSE LET r == ParseLine(mode, Head(lines))
         IN  IF ~r.returns THEN r
             ELSE ParseLines(mode, Tail(lines), Append(allTasks, r.value))

parseTasks(mode, f) == ParseLines(mode, f, <<>>)

(***************************************************************************)
(* removeDuplicateTasks.                                                   *)
(***************************************************************************)
\* A plausible slip in lines 196-198: the operation is not compared.
SameTaskButOperation(t, u) ==
    /\ t.tBegin = u.tBegin /\ t.tEnd = u.tEnd /\ t.batchSize = u.batchSize
    /\ t.order = u.order /\ t.machine = u.machine
    /\ t.processingUnit = u.processingUnit

\* The comparison of findTaskInList, lines 196-198.
SameTask(t, u) ==
    /\ t.tBegin = u.tBegin /\ t.tEnd = u.tEnd /\ t.batchSize = u.batchSize
    /\ t.order = u.order /\ t.machine = u.machine
    /\ t.processingUnit = u.processingUnit /\ t.operation = u.operation

findTaskInList(task, taskList) == \E i \in 1..Len(taskList) : SameTask(taskList[i], task)

RECURSIVE UniqueTasks(_, _)
UniqueTasks(ts, uniqueTasks) ==
    IF ts = <<>> THEN uniqueTasks
    ELSE LET haveSeenT == findTaskInList(Head(ts), uniqueTasks)
         IN  UniqueTasks(Tail(ts), IF ~haveSeenT THEN Append(uniqueTasks, Head(ts)) ELSE uniqueTasks)

removeDuplicateTasks(ts) == IF Len(ts) < 2 THEN ts ELSE UniqueTasks(ts, <<>>)

(***************************************************************************)
(* consolidateSiblingTasks.                                                *)
(***************************************************************************)
SlotOf(t) == <<t.tBegin, t.tEnd>>

\* Lines 232-235 and 290-293.
CompatibleTasks(ts, m) == SelectSeq(ts, LAMBDA t : m = t.machine)

\* Lines 236-240 and 294-298.
SlotsOf(compatibleTasks) == Unique([i \in 1..Len(compatibleTasks) |-> SlotOf(compatibleTasks[i])])

\* A plausible slip in lines 244-245: the tasks of a slot are collected by
\* tBegin alone.
ConcurrentTasksByBegin(compatibleTasks, slot) ==
    SelectSeq(compatibleTasks, LAMBDA ct : ct.tBegin = slot[1])

\* Lines 242-246.
ConcurrentTasks(compatibleTasks, slot) == SelectSeq(compatibleTasks, LAMBDA ct : SlotOf(ct) = slot)

\* A plausible slip in lines 256-257: the processing unit is not compared.
MismatchButUnit(cct, mainTask) ==
    \/ cct.machine # mainTask.machine
    \/ cct.tBegin # mainTask.tBegin
    \/ cct.tEnd # mainTask.tEnd

\* Lines 256-257.
Mismatch(cct, mainTask) ==
    \/ cct.machine # mainTask.machine
    \/ cct.processingUnit # mainTask.processingUnit
    \/ cct.tBegin # mainTask.tBegin
    \/ cct.tEnd # mainTask.tEnd

MainPrefix == <<"M", "A", "I", "N", "_">>

RECURSIVE TotalBatch(_)
TotalBatch(subs) == IF subs = <<>> THEN 0 ELSE TotalBatch(SubSeq(subs, 1, Len(subs) - 1)) + subs[Len(subs)].batchSize

\* Lines 248-252.
MainTask(m, concurrentTasks, slot) ==
    [NewTask EXCEPT !.machine = m,
                    !.processingUnit = concurrentTasks[1].processingUnit,
                    !.operation = MainPrefix \o concurrentTasks[1].operation,
                    !.tBegin = slot[1],
                    !.tEnd = slot[2]]

\* A plausible slip in lines 264-265: a group that deduplication collapses
\* to one task is wrapped in a parent all the same.
AlwaysWrapped(mainTask, concurrentTasks) ==
    LET subs == removeDuplicateTasks(concurrentTasks)
    IN  [mainTask EXCEPT !.subtasks = subs, !.batchSize = TotalBatch(subs)]

\* Lines 263-271.
Consolidated(mainTask, concurrentTasks) ==
    LET subs == removeDuplicateTasks(concurrentTasks)
    IN  IF Len(subs) = 1 THEN subs[1]
        ELSE [mainTask EXCEPT !.subtasks = subs, !.batchSize = TotalBatch(subs)]

\* The body of the loop over the slots of a machine, lines 242-277.
ConsolidateSlot(m, compatibleTasks, slot) ==
    LET concurrentTasks == ConcurrentTasks(compatibleTasks, slot)
    IN  IF Len(concurrentTasks) > 1
        THEN LET mainTask == MainTask(m, concurrentTasks, slot)
                 bad == {i \in 1..Len(concurrentTasks) : Mismatch(concurrentTasks[i], mainTask)}
             IN  IF bad # {}
                 THEN LET i == CHOOSE k \in bad : \A l \in bad : k <= l
                      IN  Exit(<<Msg("SUBTASKS DO NOT MATCH MAIN TASK", <<>>),
                                 Msg("Task: ", concurrentTasks[i]),
                                 Msg("\n VS \n", <<>>),
                                 Msg("Task: ", mainTask)>>, 5)
                 ELSE Return(Consolidated(mainTask, concurrentTasks))
        ELSE IF Len(concurrentTasks) = 1 THEN Return(concurrentTasks[1])
        ELSE Exit(<<Msg("INVALID NUMBER OF TASKS PER TIME SLOT", <<>>)>>, 5)

RECURSIVE ConsolidateSlots(_, _, _, _)
ConsolidateSlots(m, compatibleTasks, slots, reducedTasks) ==
    IF slots = <<>> THEN Return(reducedTasks)
    ELSE LET r == ConsolidateSlot(m, compatibleTasks, Head(slots))
         IN  IF ~r.returns THEN r
             ELSE ConsolidateSlots(m, compatibleTasks, Tail(slots), Append(reducedTasks, r.value))

RECURSIVE ConsolidateMachines(_, _, _)
ConsolidateMachines(ts, ms, reducedTasks) ==
    IF ms = <<>> THEN Return(reducedTasks)
    ELSE LET compatibleTasks == CompatibleTasks(ts, Head(ms))
             r == ConsolidateSlots(Head(ms), compatibleTasks, SlotsOf(compatibleTasks), reducedTasks)
         IN  IF ~r.returns THEN r ELSE ConsolidateMachines(ts, Tail(ms), r.value)

consolidateSiblingTasks(ts, ms) == ConsolidateMachines(ts, ms, <<>>)

(***************************************************************************)
(* checkForOverlappingTasks.                                               *)
(***************************************************************************)
\* The order of Python's tuples of two numbers.
SlotLess(a, b) == a[1] < b[1] \/ (a[1] = b[1] /\ a[2] < b[2])

RECURSIVE InsertSlot(_, _)
InsertSlot(x, s) ==
    IF s = <<>> THEN <<x>>
    ELSE IF SlotLess(x, Head(s)) THEN <<x>> \o s
    ELSE <<Head(s)>> \o InsertSlot(x, Tail(s))

\* A plausible slip in line 300: the slots are left in the order found.
UnsortedSlots(s) == s

\* sorted(slots), lines 300 and 400.
RECURSIVE SortedSlots(_)
SortedSlots(s) == IF s = <<>> THEN <<>> ELSE InsertSlot(s[Len(s)], SortedSlots(SubSeq(s, 1, Len(s) - 1)))

\* A plausible slip in line 303: >= for >.
OverlapsOrTouches(slt, slt2) == slt[2] >= slt2[1]

\* Line 303.
Overlaps(slt, slt2) == slt[2] > slt2[1]

\* Lines 301-303: the pairs the two loops visit and find overlapping.
OverlappingPairs(slots) ==
    {p \in (1..Len(slots)) \X (1..Len(slots)) : p[1] < p[2] /\ Overlaps(slots[p[1]], slots[p[2]])}

MachineSlots(ts, m) == SortedSlots(SlotsOf(CompatibleTasks(ts, m)))

\* The loops return at the first machine, and in it at the first pair, found
\* overlapping, after printing the two slots.
checkForOverlappingTasks(ts, ms) ==
    LET hit == {k \in 1..Len(ms) : OverlappingPairs(MachineSlots(ts, ms[k])) # {}}
    IN  IF hit = {} THEN Return(FALSE)
        ELSE LET k == CHOOSE x \in hit : \A y \in hit : x <= y
                 slots == MachineSlots(ts, ms[k])
                 pairs == OverlappingPairs(slots)
                 p == CHOOSE x \in pairs : \A y \in pairs :
                          x[1] < y[1] \/ (x[1] = y[1] /\ x[2] <= y[2])
             IN  [Return(TRUE) EXCEPT !.out = <<Msg("slot", slots[p[1]]), Msg("slot", slots[p[2]])>>]

(***************************************************************************)
(* The rendering loop of makeGanttChart, as far as the task list decides   *)
(* it: one bar per machine and slot, labelled from the last task of the    *)
(* machine that occupies the slot (lines 405-408 and 419-421).             *)
(***************************************************************************)
LastInSlot(compatibleTasks, slt) ==
    LET at == {i \in 1..Len(compatibleTasks) : SlotOf(compatibleTasks[i]) = slt}
    IN  compatibleTasks[CHOOSE i \in at : \A j \in at : j <= i]

MachineBars(ts, m) ==
    LET compatibleTasks == CompatibleTasks(ts, m)
        slots == SortedSlots(SlotsOf(compatibleTasks))
    IN  [s \in 1..Len(slots) |->
            [machine |-> m, slot |-> slots[s], task |-> LastInSlot(compatibleTasks, slots[s])]]

RECURSIVE AllBars(_, _)
AllBars(ts, ms) == IF ms = <<>> THEN <<>> ELSE MachineBars(ts, Head(ms)) \o AllBars(ts, Tail(ms))

\* min(y_pos) of line 374 raises ValueError when there is no machine; the
\* loop over the machines ends the process at its first pass when the mode
\* is neither "SCH" nor "MTS" (lines 457-459).
Render(mode, ts, ms) ==
    IF ms = <<>> THEN Raise("ValueError")
    ELSE IF mode # "SCH" /\ mode # "MTS" THEN Exit(<<Msg("INVALID MODE", <<>>)>>, 5)
    ELSE Return(AllBars(ts, ms))

(***************************************************************************)
(* The run of the program: __main__ and makeGanttChart, statement by       *)
(* statement.                                                              *)
(***************************************************************************)
Usage == "Usage: plotGantt.py TYPE path/to/result/file.gantt \n where TYPE is : MTS / SCH"

\* The call ended the process.
Ends(r) ==
    /\ pc' = "exit"
    /\ stdout' = stdout \o r.out
    /\ raised' = r.raised
    /\ status' = r.status

\* The call returned and the run goes on at next.
Goes(next, out) ==
    /\ pc' = next
    /\ stdout' = stdout \o out
    /\ UNCHANGED <<raised, status>>

\* readArgs, lines 510-518.  After the message about the type there is no
\* exit: the arguments are returned.
ReadArgs ==
    /\ pc = "readArgs"
    /\ IF Len(argv) # 3
       THEN Ends(Exit(<<Msg("ERROR - Wrong number of arguments! \n", <<>>), Msg(Usage, <<>>)>>, 5))
       ELSE IF argv[2] # "MTS" /\ argv[2] # "SCH"
       THEN Goes("parseTasks", <<Msg("ERROR - Wrong type specified! : ", argv[2]), Msg(Usage, <<>>)>>)
       ELSE Goes("parseTasks", <<>>)
    /\ UNCHANGED <<argv, file, tasks, machines, rawTasks, consTasks, overlap, bars>>

\* Lines 348-349.
ParseTasks ==
    /\ pc = "parseTasks"
    /\ LET r == parseTasks(argv[2], file)
       IN  IF r.returns
           THEN /\ tasks' = r.value
                /\ rawTasks' = r.value
                /\ machines' = SortedStrs(getMachines(r.value))
                /\ Goes(IF argv[2] = "MTS" THEN "consolidateSiblingTasks" ELSE "removeDuplicateTasks", <<>>)
           ELSE /\ Ends(r)
                /\ UNCHANGED <<tasks, rawTasks, machines>>
    /\ UNCHANGED <<argv, file, consTasks, overlap, bars>>

\* Lines 354-355.
Consolidate ==
    /\ pc = "consolidateSiblingTasks"
    /\ LET r == consolidateSiblingTasks(tasks, machines)
       IN  IF r.returns
           THEN tasks' = r.value /\ Goes("removeDuplicateTasks", <<>>)
           ELSE Ends(r) /\ UNCHANGED tasks
    /\ UNCHANGED <<argv, file, machines, rawTasks, consTasks, overlap, bars>>

\* Line 356.
RemoveDuplicates ==
    /\ pc = "removeDuplicateTasks"
    /\ consTasks' = tasks
    /\ tasks' = removeDuplicateTasks(tasks)
    /\ Goes("checkForOverlappingTasks", <<>>)
    /\ UNCHANGED <<argv, file, machines, rawTasks, overlap, bars>>

\* Lines 357-359.
CheckOverlap ==
    /\ pc = "checkForOverlappingTasks"
    /\ LET r == checkForOverlappingTasks(tasks, machines)
       IN  /\ overlap' = r.value
           /\ IF r.value
              THEN Ends(Exit(r.out \o <<Msg("ERROR! Found overlapping tasks, check your input file!", <<>>)>>, 5))
              ELSE Goes("render", r.out)
    /\ UNCHANGED <<argv, file, tasks, machines, rawTasks, consTasks, bars>>

\* Lines 366-466.
RenderChart ==
    /\ pc = "render"
    /\ LET r == Render(argv[2], tasks, machines)
       IN  IF r.returns
           THEN bars' = r.value /\ Goes("done", <<>>)
           ELSE Ends(r) /\ UNCHANGED bars
    /\ UNCHANGED <<argv, file, tasks, machines, rawTasks, consTasks, overlap>>

Next == ReadArgs \/ ParseTasks \/ Consolidate \/ RemoveDuplicates \/ CheckOverlap \/ RenderChart

(***************************************************************************)
(* The inputs of the run.                                                  *)
(***************************************************************************)
Program == "plotGantt.py"

Path == "file.gantt"

\* Command lines: no argument, one argument too many, and each mode.
Argvs ==
    {<<Program>>, <<Program, "MTS", Path, Path>>,
     <<Program, "MTS", Path>>, <<Program, "SCH", Path>>, <<Program, "XYZ", Path>>}

\* A line of the file: the fields, each followed by gap[i] spaces, and the
\* end of the line.
RECURSIVE Spaces(_)
Spaces(n) == IF n = 0 THEN <<>> ELSE <<" ">> \o Spaces(n - 1)

RECURSIVE Joined(_, _)
Joined(fields, gap) ==
    IF Len(fields) = 1 THEN Head(fields)
    ELSE Head(fields) \o Spaces(Head(gap)) \o Joined(Tail(fields), Tail(gap))

LineOf(fields, gap) == Joined(fields, gap) \o <<"\n">>

Field0s ==
    {<<"P", "_", "M", "_", "A">>, <<"P", "_", "M", "_", "B">>,
     <<"Q", "_", "M", "_", "B">>, <<"P", "_", "N", "_", "A">>}

SlotFields == {<< <<"0">>, <<"1">> >>, << <<"0">>, <<"2">> >>}

WorkFields == {<< <<"X">>, <<"1">> >>, << <<"Y">>, <<"2">> >>}

Lines ==
    {LineOf(<<f0, sl[1], sl[2], w[1], w[2]>>, <<1, 1, 1, 1>>) :
        f0 \in Field0s, sl \in SlotFields, w \in WorkFields}

SeqsUpTo(S, n) == UNION {[1..k -> S] : k \in 0..n}

Files == SeqsUpTo(Lines, MaxLines)

Start(args, f) ==
    /\ argv = args
    /\ file = f
    /\ pc = "readArgs"
    /\ tasks = <<>>
    /\ machines = <<>>
    /\ rawTasks = <<>>
    /\ consTasks = <<>>
    /\ overlap = FALSE
    /\ bars = <<>>
    /\ stdout = <<>>
    /\ raised = ""
    /\ status = 0

Init == \E args \in Argvs, f \in Files : Start(args, f)

Spec == Init /\ [][Next]_vars

\* The run in MTS mode.
InitMTS == \E f \in Files : Start(<<Program, "MTS", Path>>, f)

SpecMTS == InitMTS /\ [][Next]_vars

(***************************************************************************)
(* parseTasks alone, on files whose lines have 4, 5 or 6 fields, 1 to      *)
(* MaxGap spaces after each field, and a first field with 2, 1 or no "_".  *)
(***************************************************************************)
ParseField0s == {<<"P", "_", "M", "_", "A">>, <<"P", "_", "M">>, <<"P", "M", "A">>}

RestFields == {<< <<"0">>, <<"1">>, <<"X">> >>,
               << <<"0">>, <<"1">>, <<"X">>, <<"2">> >>,
               << <<"0">>, <<"1">>, <<"X">>, <<"2">>, <<"Y">> >>}

ParseLinesSet ==
    {LineOf(<<f0>> \o rest, gap) :
        f0 \in ParseField0s, rest \in RestFields, gap \in [1..5 -> 1..MaxGap]}

ParseFiles == SeqsUpTo(ParseLinesSet, MaxParseLines) \ {<<>>}

InitParse ==
    \E mode \in {"MTS", "SCH"}, f \in ParseFiles :
        /\ argv = <<Program, mode, Path>>
        /\ file = f
        /\ pc = "parseTasks"
        /\ tasks = <<>> /\ machines = <<>> /\ rawTasks = <<>> /\ consTasks = <<>>
        /\ overlap = FALSE /\ bars = <<>> /\ stdout = <<>> /\ raised = "" /\ status = 0

SpecParse == InitParse /\ [][ParseTasks]_vars

(***************************************************************************)
(* removeDuplicateTasks alone, on lists of tasks that differ from one      *)
(* another in any of the seven fields.                                     *)
(***************************************************************************)
BaseTask ==
    [tBegin |-> 0, tEnd |-> 1, batchSize |-> 1, order |-> <<"A">>, machine |-> <<"M">>,
     processingUnit |-> <<"P">>, operation |-> <<"X">>, subtasks |-> <<>>]

DedupTasks ==
    {BaseTask,
     [BaseTask EXCEPT !.tBegin = 1], [BaseTask EXCEPT !.tEnd = 2],
     [BaseTask EXCEPT !.batchSize = 2], [BaseTask EXCEPT !.order = <<"B">>],
     [BaseTask EXCEPT !.machine = <<"N">>], [BaseTask EXCEPT !.processingUnit = <<"Q">>],
     [BaseTask EXCEPT !.operation = <<"Y">>]}

\* The run stands before the call next with ts in tasks and ms in machines.
Before(next, ts, ms) ==
    /\ argv = <<Program, "SCH", Path>>
    /\ file = <<>>
    /\ pc = next
    /\ tasks = ts
    /\ machines = ms
    /\ rawTasks = ts
    /\ consTasks = <<>>
    /\ overlap = FALSE
    /\ bars = <<>>
    /\ stdout = <<>>
    /\ raised = ""
    /\ status = 0

InitDedup ==
    \E ts \in SeqsUpTo(DedupTasks, MaxTasks) :
        Before("removeDuplicateTasks", ts, SortedStrs(getMachines(ts)))

SpecDedup == InitDedup /\ [][RemoveDuplicates]_vars

(***************************************************************************)
(* checkForOverlappingTasks alone, on lists of tasks of two machines with  *)
(* tBegin in 0..MaxBegin and tEnd in 0..MaxEnd (the parser does not        *)
(* require tBegin <= tEnd).  The machine list is the one makeGanttChart    *)
(* passes, the sorted machines of the tasks, or holds machine M alone.     *)
(***************************************************************************)
OverlapTasks ==
    {[BaseTask EXCEPT !.machine = m, !.tBegin = b, !.tEnd = e] :
        m \in {<<"M">>, <<"N">>}, b \in 0..MaxBegin, e \in 0..MaxEnd}

InitOverlap ==
    \E ts \in SeqsUpTo(OverlapTasks, MaxTasks) :
        \E ms \in {SortedStrs(getMachines(ts)), << <<"M">> >>} :
            Before("checkForOverlappingTasks", ts, ms)

SpecOverlap == InitOverlap /\ [][CheckOverlap]_vars

(***************************************************************************)
(* Properties of checkForOverlappingTasks (SpecOverlap).                   *)
(***************************************************************************)
OverlapChecked == pc # "checkForOverlappingTasks"

\* Two tasks of a machine of the list whose slots (b1,e1), (b2,e2) have
\* b1 < b2 and e1 > b2.
LaterStartOverlap ==
    \E k \in 1..Len(machines), i \in 1..Len(tasks), j \in 1..Len(tasks) :
        /\ tasks[i].machine = machines[k] /\ tasks[j].machine = machines[k]
        /\ tasks[i].tBegin < tasks[j].tBegin
        /\ tasks[i].tEnd > tasks[j].tBegin

\* Two tasks of a machine of the list with the same tBegin b, whose ends
\* differ, the smaller end being greater than b.
SameStartOverlap ==
    \E k \in 1..Len(machines), i \in 1..Len(tasks), j \in 1..Len(tasks) :
        /\ tasks[i].machine = machines[k] /\ tasks[j].machine = machines[k]
        /\ tasks[i].tBegin = tasks[j].tBegin
        /\ tasks[i].tEnd < tasks[j].tEnd
        /\ tasks[i].tEnd > tasks[j].tBegin

\* C1, as stated: checkForOverlappingTasks returns True if and only if some
\* machine of the list has two distinct slots (b1,e1), (b2,e2) with b1 < b2
\* and e1 > b2.
C1_OverlapIffLaterStart == OverlapChecked => (overlap <=> LaterStartOverlap)

\* C1, amended: checkForOverlappingTasks returns True if and only if some
\* machine of the list has two distinct slots (b1,e1), (b2,e2) with e1 > b2
\* and either b1 < b2, or b1 = b2 and e1 < e2.  Slots that only touch
\* (e1 = b2) are no overlap.
C1_OverlapIffEarlierSlotEndsLate ==
    OverlapChecked => (overlap <=> (LaterStartOverlap \/ SameStartOverlap))

\* C1, witness: the check has returned True for two slots that start together.
C1_Witness == OverlapChecked /\ overlap /\ SameStartOverlap /\ ~LaterStartOverlap

\* The sweep over the adjacent slots of a sorted list.
AdjacentSweep(slots) == \E k \in 1..(Len(slots) - 1) : slots[k][2] > slots[k + 1][1]

\* C10: the scan of all later pairs returns what a sweep over the adjacent
\* slots of the sorted list of each machine returns.
C10_AllPairsEqualsAdjacentSweep ==
    OverlapChecked =>
        (overlap <=> \E k \in 1..Len(machines) : AdjacentSweep(MachineSlots(tasks, machines[k])))

\* C10, witness: the scan has found a pair of slots that are not adjacent
\* in the sorted list of a machine.
C10_Witness ==
    /\ OverlapChecked
    /\ overlap
    /\ \E k \in 1..Len(machines) :
          \E p \in OverlappingPairs(MachineSlots(tasks, machines[k])) : p[2] > p[1] + 1

(***************************************************************************)
(* Properties of removeDuplicateTasks (SpecDedup).                         *)
(***************************************************************************)
Deduplicated == pc # "removeDuplicateTasks"

SevenFields(t) ==
    <<t.tBegin, t.tEnd, t.batchSize, t.order, t.machine, t.processingUnit, t.operation>>

\* The places of ts that hold the first occurrence of a 7-tuple.
FirstOccurrences(ts) ==
    {i \in 1..Len(ts) : \A j \in 1..(i - 1) : SevenFields(ts[j]) # SevenFields(ts[i])}

\* The k-th smallest element of a set of numbers.
Nth(S, k) == CHOOSE x \in S : Cardinality({y \in S : y <= x}) = k

\* C3: the list removeDuplicateTasks returns has no two elements equal on
\* all seven fields and is the subsequence of the input made of the first
\* occurrence of every distinct 7-tuple of the input.
C3_DedupKeepsFirstOccurrences ==
    Deduplicated =>
        /\ \A i \in 1..Len(tasks), j \in 1..Len(tasks) :
              i # j => SevenFields(tasks[i]) # SevenFields(tasks[j])
        /\ Len(tasks) = Cardinality(FirstOccurrences(consTasks))
        /\ \A k \in 1..Len(tasks) : tasks[k] = consTasks[Nth(FirstOccurrences(consTasks), k)]

\* C3, witness: a duplicate has been removed from between kept tasks.
C3_Witness ==
    /\ Deduplicated
    /\ Len(consTasks) = 3
    /\ Len(tasks) = 2
    /\ SevenFields(consTasks[1]) = SevenFields(consTasks[3])

(***************************************************************************)
(* Properties of consolidateSiblingTasks (SpecMTS).                        *)
(***************************************************************************)
\* consolidateSiblingTasks has returned: tasks holds its result and
\* rawTasks the list it was given.
ConsolidationReturned == pc = "removeDuplicateTasks" /\ argv[2] = "MTS"

RECURSIVE SumOfBatches(_)
SumOfBatches(ts) == IF ts = <<>> THEN 0 ELSE Head(ts).batchSize + SumOfBatches(Tail(ts))

IsParent(t) == t.subtasks # <<>>

\* C2: every synthetic parent of the result has the sum of its subtasks'
\* batchSize as batchSize, and every subtask has the parent's tBegin, tEnd,
\* machine and processingUnit.
C2_ParentMatchesSubtasks ==
    ConsolidationReturned =>
        \A i \in 1..Len(tasks) :
            IsParent(tasks[i]) =>
                /\ SubSeq(tasks[i].operation, 1, 5) = <<"M", "A", "I", "N", "_">>
                /\ tasks[i].batchSize = SumOfBatches(tasks[i].subtasks)
                /\ \A k \in 1..Len(tasks[i].subtasks) :
                      LET sub == tasks[i].subtasks[k]
                      IN  /\ sub.tBegin = tasks[i].tBegin
                          /\ sub.tEnd = tasks[i].tEnd
                          /\ sub.machine = tasks[i].machine
                          /\ sub.processingUnit = tasks[i].processingUnit

\* C2, witness: the result holds a parent of two subtasks of batchSize 1 and 2.
C2_Witness ==
    /\ ConsolidationReturned
    /\ \E i \in 1..Len(tasks) :
          /\ Len(tasks[i].subtasks) = 2
          /\ tasks[i].subtasks[1].batchSize # tasks[i].subtasks[2].batchSize
          /\ tasks[i].batchSize = 3

\* The machine and slot pairs of a task list.
MachineSlotPairs(ts) == {<<ts[i].machine, ts[i].tBegin, ts[i].tEnd>> : i \in 1..Len(ts)}

\* The tasks of ts on machine and slot ms, in the order of ts.
Group(ts, ms) ==
    SelectSeq(ts, LAMBDA t : t.machine = ms[1] /\ t.tBegin = ms[2] /\ t.tEnd = ms[3])

\* The first occurrence of every distinct 7-tuple of ts, in the order of ts.
FirstOfEach(ts) == [k \in 1..Cardinality(FirstOccurrences(ts)) |-> ts[Nth(FirstOccurrences(ts), k)]]

\* C7: the result holds exactly one task per machine and slot of the input:
\* a synthetic parent named "MAIN_" + the first concurrent task's operation,
\* with the deduplicated group as subtasks, if and only if the group holds
\* two tasks that differ on some of the seven fields; the input task itself,
\* with no subtasks, otherwise.
C7_OneTaskPerMachineSlot ==
    ConsolidationReturned =>
        /\ Len(tasks) = Cardinality(MachineSlotPairs(rawTasks))
        /\ \A ms \in MachineSlotPairs(rawTasks) :
              \E i \in 1..Len(tasks) :
                  LET group == Group(rawTasks, ms)
                      r == tasks[i]
                  IN  /\ <<r.machine, r.tBegin, r.tEnd>> = ms
                      /\ IF \E a \in 1..Len(group), b \in 1..Len(group) :
                               SevenFields(group[a]) # SevenFields(group[b])
                         THEN /\ r.operation = <<"M", "A", "I", "N", "_">> \o group[1].operation
                              /\ r.subtasks = FirstOfEach(group)
                              /\ Len(r.subtasks) >= 2
                         ELSE /\ r = group[1]
                              /\ r.subtasks = <<>>

\* C7, witness: a group of three tasks, two of them verbatim duplicates,
\* has become one parent of two subtasks.
C7_Witness ==
    /\ ConsolidationReturned
    /\ Len(rawTasks) = 3
    /\ Len(tasks) = 1
    /\ Len(tasks[1].subtasks) = 2

ConsistencyExit == Printed("SUBTASKS DO NOT MATCH MAIN TASK")

ConsolidationOver == pc \notin {"readArgs", "parseTasks", "consolidateSiblingTasks"}

\* C8, as stated: the consistency check of consolidateSiblingTasks never
\* fires on a task list the parser produces in MTS mode.
C8_ConsistencyExitNeverFires == ~ConsistencyExit

\* Two parsed tasks of the same machine and slot with different processing units.
UnitsDifferInSlot ==
    \E i \in 1..Len(rawTasks), j \in 1..Len(rawTasks) :
        /\ rawTasks[i].machine = rawTasks[j].machine
        /\ rawTasks[i].tBegin = rawTasks[j].tBegin
        /\ rawTasks[i].tEnd = rawTasks[j].tEnd
        /\ rawTasks[i].processingUnit # rawTasks[j].processingUnit

\* C8, amended: the consistency check fires if and only if two tasks of the
\* same machine and slot have different processing units; the task it
\* reports has the machine and the interval of the synthetic parent, which
\* the grouping guarantees, and another processing unit.
C8_ConsistencyExitIffUnitsDiffer ==
    ConsolidationOver =>
        /\ ConsistencyExit <=> UnitsDifferInSlot
        /\ ConsistencyExit =>
              /\ pc = "exit" /\ status = 5
              /\ stdout[2].arg.machine = stdout[4].arg.machine
              /\ stdout[2].arg.tBegin = stdout[4].arg.tBegin
              /\ stdout[2].arg.tEnd = stdout[4].arg.tEnd
              /\ stdout[2].arg.processingUnit # stdout[4].arg.processingUnit

\* C8, witness: the consistency check has ended the run.
C8_Witness == ConsistencyExit /\ pc = "exit" /\ Len(rawTasks) >= 2

(***************************************************************************)
(* Properties of parseTasks (SpecParse).                                   *)
(***************************************************************************)
Parsed == pc # "parseTasks"

RECURSIVE RunLength(_)
RunLength(s) == IF s = <<>> \/ IsSpace(Head(s)) THEN 0 ELSE 1 + RunLength(Tail(s))

\* The fields of a line of the file format: the runs of characters that
\* one or more spaces, or the end of the line, separate.
RECURSIVE FieldsOf(_)
FieldsOf(s) ==
    IF s = <<>> THEN <<>>
    ELSE IF IsSpace(Head(s)) THEN FieldsOf(Tail(s))
    ELSE <<SubSeq(s, 1, RunLength(s))>> \o FieldsOf(SubSeq(s, RunLength(s) + 1, Len(s)))

Underscores(s) == Cardinality({i \in 1..Len(s) : s[i] = "_"})

\* Every line has exactly 5 fields, numbers in fields 1, 2 and 4 and, in
\* MTS mode, exactly two "_" in field 0.
FollowsFormat ==
    \A l \in 1..Len(file) :
        LET f == FieldsOf(file[l])
        IN  /\ Len(f) = 5
            /\ CanFloat(f[2]) /\ CanFloat(f[3]) /\ CanFloat(f[5])
            /\ argv[2] = "MTS" => Underscores(f[1]) = 2

\* C4: parseTasks accepts every file whose lines have exactly 5 fields
\* separated by one or more spaces, and returns one task per line, in file
\* order, made from the fields of the line.
C4_AcceptsFieldsSeparatedBySpaces ==
    (Parsed /\ FollowsFormat) =>
        /\ pc # "exit"
        /\ Len(rawTasks) = Len(file)
        /\ \A l \in 1..Len(file) :
              LET f == FieldsOf(file[l])
                  t == rawTasks[l]
              IN  /\ t.tBegin = Float(f[2])
                  /\ t.tEnd = Float(f[3])
                  /\ t.operation = f[4]
                  /\ t.batchSize = Float(f[5])
                  /\ t.machine = IF argv[2] = "MTS" THEN Split(f[1], "_")[2] ELSE f[1]

\* Some line splits into a number of fields other than 5 or, in MTS mode,
\* has a field 0 that does not split on "_" into exactly 3 parts.
Malformed ==
    \E l \in 1..Len(file) :
        LET words == Split(file[l], " ")
        IN  \/ Len(words) # 5
            \/ argv[2] = "MTS" /\ Len(Split(words[1], "_")) # 3

\* C5: on a malformed file parseTasks ends the run as a format error:
\* something is reported on standard output and the process exits, by
\* exit, with a non-zero status.
C5_MalformedEndsInFormatError ==
    (Parsed /\ Malformed) =>
        /\ pc = "exit"
        /\ status # 0
        /\ raised = ""
        /\ stdout # <<>>

(***************************************************************************)
(* Properties of the whole run (Spec).                                     *)
(***************************************************************************)
BadCommandLine == Len(argv) # 3 \/ (argv[2] # "MTS" /\ argv[2] # "SCH")

\* C6: on a command line with a wrong number of arguments or an unknown
\* mode, readArgs prints the usage and ends the run with exit status 5.
C6_BadCommandLineExits ==
    (BadCommandLine /\ pc # "readArgs") =>
        /\ pc = "exit"
        /\ status = 5
        /\ raised = ""
        /\ Printed(Usage)
        /\ rawTasks = <<>>

\* The run in SCH mode has passed removeDuplicateTasks and
\* checkForOverlappingTasks and reached the rendering.
ValidatedSCH == Len(argv) = 3 /\ argv[2] = "SCH" /\ pc \in {"render", "done"}

\* C9: in SCH mode no two distinct tasks of the validated list share the
\* machine and the slot.
C9_OneTaskPerSlotPerMachine ==
    ValidatedSCH =>
        \A i \in 1..Len(tasks), j \in 1..Len(tasks) :
            (i # j /\ tasks[i].machine = tasks[j].machine) =>
                <<tasks[i].tBegin, tasks[i].tEnd>> # <<tasks[j].tBegin, tasks[j].tEnd>>

=============================================================================
